---- MODULE Spec2Model ----
(***************************************************************************)
(* A model of the_snake.py: the snake, the apples, the poison, the rocks,  *)
(* the speed and the main loop of main(), one action per step of the loop. *)
(* Cells are pixel positions <<x, y>> as in the source.  The screen is     *)
(* scaled down (HalfCols, HalfRows) so that wrap-around, growth and        *)
(* collisions all happen within a few ticks; every other number is the     *)
(* source's.                                                               *)
(***************************************************************************)
EXTENDS Integers, Sequences, FiniteSets

(* ------------------------------ bounds -------------------------------- *)
\* The screen is 2*HalfCols cells wide and 2*HalfRows cells high (the source's
\* is 32 x 24): an even number of cells, as in the source, so that the centre
\* of the screen is a cell.
HalfCols == 2
HalfRows == 2
\* Spec: iterations of the main loop, and arrow keys pending at one drain.
MaxTicks == 5
MaxArrows == 1
\* SpecKeys: iterations of the main loop, and events (of any kind) pending at
\* one drain.
KeyTicks == 2
MaxEvents == 2
\* SpecSpeed: iterations of the main loop, and speed keys pending at one drain.
SpeedTicks == 3
MaxPresses == 4
\* SpecApart: iterations of the main loop.
ApartTicks == 4

(* ---------------------------- constants ------------------------------- *)
GRID_SIZE == 20
SCREEN_WIDTH == 2 * HalfCols * GRID_SIZE
SCREEN_HEIGHT == 2 * HalfRows * GRID_SIZE
GRID_WIDTH == SCREEN_WIDTH \div GRID_SIZE
GRID_HEIGHT == SCREEN_HEIGHT \div GRID_SIZE

UP == <<0, -1>>
DOWN == <<0, 1>>
LEFT == <<-1, 0>>
RIGHT == <<1, 0>>
Directions == {UP, DOWN, LEFT, RIGHT}

INITIAL_FPS == 10
MIN_FPS == 5
MAX_FPS == 20
NumApples == 3
NumRocks == 2

\* Python's None (next_direction, last): falsy, and no cell or direction.
None == <<>>

\* (SCREEN_WIDTH // 2, SCREEN_HEIGHT // 2)
Center == <<SCREEN_WIDTH \div 2, SCREEN_HEIGHT \div 2>>

\* The values of (randint(0, GRID_WIDTH - 1) * GRID_SIZE,
\*                randint(0, GRID_HEIGHT - 1) * GRID_SIZE).
Cells ==
  {<<c * GRID_SIZE, r * GRID_SIZE>> : c \in 0..(GRID_WIDTH - 1), r \in 0..(GRID_HEIGHT - 1)}

Range(s) == {s[i] : i \in 1..Len(s)}

Max(a, b) == IF a >= b THEN a ELSE b

\* The sequences of at most n elements of E
RECURSIVE SeqsUpTo(_, _)
SeqsUpTo(E, n) ==
  IF n = 0 THEN {<<>>}
  ELSE LET shorter == SeqsUpTo(E, n - 1)
       IN shorter \cup {Append(q, e) : q \in shorter, e \in E}

(* ------------------------------ events -------------------------------- *)
QUIT == [type |-> "QUIT", key |-> "NONE"]
KeyDown(k) == [type |-> "KEYDOWN", key |-> k]
ArrowKeys == {"K_UP", "K_DOWN", "K_LEFT", "K_RIGHT"}
SpeedKeys == {"K_q", "K_w"}
\* K_SPACE stands for every key the program does not recognise.
Keys == ArrowKeys \cup SpeedKeys \cup {"K_ESCAPE", "K_SPACE"}
ArrowEvents == {KeyDown(k) : k \in ArrowKeys}
SpeedEvents == {KeyDown(k) : k \in SpeedKeys}
\* The events of SpecKeys: every kind of event but the speed keys
Events == {KeyDown(k) : k \in Keys \ SpeedKeys} \cup {QUIT}

\* What pygame.event.get() may return at one drain, in each specification
ArrowDrains == SeqsUpTo(ArrowEvents, MaxArrows)
KeyDrains == SeqsUpTo(Events, MaxEvents)
SpeedDrains == SeqsUpTo(SpeedEvents, MaxPresses)

(* ------------------------------ state --------------------------------- *)
VARIABLES
  positions,       \* snake.positions, head first
  length,          \* snake.length
  direction,       \* snake.direction
  next_direction,  \* snake.next_direction
  last,            \* snake.last
  apples,          \* apples[i].position
  poison,          \* poison.position
  rocks,           \* rocks[i].position
  fps,             \* main's fps
  new_position,    \* randomize_position's new_position (the last cell it drew)
  occupied_positions, \* main's occupied_positions
  pc,              \* where main() is
  move_reset,      \* history: the last move() reset the snake
  before,          \* history: the state the last step started from, and the events it read
  ticks            \* history: iterations of the main loop begun

vars ==
  <<positions, length, direction, next_direction, last, apples, poison, rocks,
    fps, new_position, occupied_positions, pc, move_reset, before, ticks>>

\* The state a step starts from, with the events it reads
Snapshot(evs) ==
  [pc |-> pc, positions |-> positions, length |-> length, direction |-> direction,
   next_direction |-> next_direction, last |-> last, apples |-> apples,
   poison |-> poison, rocks |-> rocks, fps |-> fps, events |-> evs]

(* ---------------------------- the snake ------------------------------- *)
\* Snake.get_head_position
get_head_position(ps) == ps[1]

\* new_head without the wrap-around
new_head_unwrapped(ps, d) ==
  <<get_head_position(ps)[1] + d[1] * GRID_SIZE,
    get_head_position(ps)[2] + d[2] * GRID_SIZE>>

\* Snake.move: new_head
new_head(ps, d) ==
  <<(get_head_position(ps)[1] + d[1] * GRID_SIZE) % SCREEN_WIDTH,
    (get_head_position(ps)[2] + d[2] * GRID_SIZE) % SCREEN_HEIGHT>>

\* move() without the test for a collision with the body
self_collision_ignored(ps, d) == FALSE

\* self_collision sparing the tail cell, as if it were vacated by the move
self_collision_spares_tail(ps, d) ==
  /\ Len(ps) >= 3
  /\ \E i \in 3..(Len(ps) - 1) : ps[i] = new_head(ps, d)

\* Snake.move: len(self.positions) >= 3 and new_head in self.positions[2:]
self_collision(ps, d) ==
  /\ Len(ps) >= 3
  /\ \E i \in 3..Len(ps) : ps[i] = new_head(ps, d)

\* list[:n] for n >= 0
Slice(s, n) == SubSeq(s, 1, IF n < Len(s) THEN n ELSE Len(s))

\* The body after insert(0, new_head), without the slice to length
truncated_unsliced(ps, d, len) == <<new_head(ps, d)>> \o ps

\* Snake.move without a reset: the body after insert(0, new_head) and [:length]
truncated(ps, d, len) == Slice(<<new_head(ps, d)>> \o ps, len)

\* The move that inserts the new head and drops no cell
moved_keeping_tail(ps, d, len, lst) ==
  [positions |-> <<new_head(ps, d)>> \o ps, last |-> lst]

\* Snake.move without a reset: the body and last after the trailing
\* "if len(self.positions) > self.length: self.last = self.positions.pop()"
moved(ps, d, len, lst) ==
  LET t == truncated(ps, d, len)
  IN IF Len(t) > len
       THEN [positions |-> SubSeq(t, 1, Len(t) - 1), last |-> t[Len(t)]]
       ELSE [positions |-> t, last |-> lst]

\* Snake.update_direction: the direction it leaves
update_direction(d, nd) == IF nd # None THEN nd ELSE d

(* ------------------------------ input --------------------------------- *)
\* process_direction_keys without the test against the current direction
process_direction_keys_unchecked(key, d, nd) ==
  IF key = "K_UP" THEN UP
  ELSE IF key = "K_DOWN" THEN DOWN
  ELSE IF key = "K_LEFT" THEN LEFT
  ELSE IF key = "K_RIGHT" THEN RIGHT
  ELSE nd

\* process_direction_keys dropping the buffered direction on a key it rejects
process_direction_keys_clearing(key, d, nd) ==
  IF key = "K_UP" /\ d # DOWN THEN UP
  ELSE IF key = "K_DOWN" /\ d # UP THEN DOWN
  ELSE IF key = "K_LEFT" /\ d # RIGHT THEN LEFT
  ELSE IF key = "K_RIGHT" /\ d # LEFT THEN RIGHT
  ELSE None

\* process_direction_keys: the next_direction after one key
process_direction_keys(key, d, nd) ==
  IF key = "K_UP" /\ d # DOWN THEN UP
  ELSE IF key = "K_DOWN" /\ d # UP THEN DOWN
  ELSE IF key = "K_LEFT" /\ d # RIGHT THEN LEFT
  ELSE IF key = "K_RIGHT" /\ d # LEFT THEN RIGHT
  ELSE nd

\* process_misc_keys raising SystemExit on every key it does not handle
misc_keys_exit_unmatched(key, f) ==
  /\ ~(key = "K_q" /\ f > MIN_FPS)
  /\ ~(key = "K_w" /\ f < MAX_FPS)

\* process_misc_keys: whether it raises SystemExit
misc_keys_exit(key, f) ==
  /\ ~(key = "K_q" /\ f > MIN_FPS)
  /\ ~(key = "K_w" /\ f < MAX_FPS)
  /\ key = "K_ESCAPE"

\* process_misc_keys with the bounds compared inclusively
process_misc_keys_inclusive(key, f) ==
  IF key = "K_q" /\ f >= MIN_FPS THEN f - 1
  ELSE IF key = "K_w" /\ f <= MAX_FPS THEN f + 1
  ELSE f

\* process_misc_keys: the fps it returns
process_misc_keys(key, f) ==
  IF key = "K_q" /\ f > MIN_FPS THEN f - 1
  ELSE IF key = "K_w" /\ f < MAX_FPS THEN f + 1
  ELSE f

\* handle_keys reading the arrow keys queued after the event that raised
RECURSIVE handle_keys_reading_on(_, _, _, _)
handle_keys_reading_on(evs, d, nd, f) ==
  IF evs = <<>> THEN [next_direction |-> nd, fps |-> f, exit |-> FALSE]
  ELSE LET e == Head(evs)
           nd1 == process_direction_keys(e.key, d, nd)
           rest == handle_keys_reading_on(Tail(evs), d, nd1, process_misc_keys(e.key, f))
       IN IF e.type = "QUIT" \/ misc_keys_exit(e.key, f)
            THEN [next_direction |-> rest.next_direction, fps |-> f, exit |-> TRUE]
            ELSE rest

\* handle_keys on the events pygame.event.get() returns: the next_direction
\* and the fps it leaves, and whether it raised SystemExit (the events after
\* the one that raised are not read).
RECURSIVE handle_keys(_, _, _, _)
handle_keys(evs, d, nd, f) ==
  IF evs = <<>> THEN [next_direction |-> nd, fps |-> f, exit |-> FALSE]
  ELSE LET e == Head(evs)
           nd1 == process_direction_keys(e.key, d, nd)
       IN IF e.type = "QUIT"
            THEN [next_direction |-> nd, fps |-> f, exit |-> TRUE]
          ELSE IF misc_keys_exit(e.key, f)
            THEN [next_direction |-> nd1, fps |-> f, exit |-> TRUE]
          ELSE handle_keys(Tail(evs), d, nd1, process_misc_keys(e.key, f))

(* --------------------------- initial state ---------------------------- *)
\* Apple(), Poison() and Rock() each draw a cell at random, whatever is there
\* already.  The draws explored at construction are the centre and the cell
\* ahead of the snake, with the three apples on one cell (every later draw
\* of an apple is its own).
InitCells == {Center, new_head(<<Center>>, RIGHT)}

\* The draws explored after construction are the cells of the snake's row.
RandCells == {c \in Cells : c[2] = Center[2]}

Init ==
  /\ positions = <<Center>>
  /\ length = 1
  /\ direction = RIGHT
  /\ next_direction = None
  /\ last = None
  /\ apples \in {<<a, a, a>> : a \in InitCells}
  /\ poison \in InitCells
  /\ rocks \in {<<a, b>> : a \in InitCells, b \in InitCells}
  /\ fps = INITIAL_FPS
  /\ new_position = None
  /\ occupied_positions = {}
  /\ pc = "tick"
  /\ move_reset = FALSE
  /\ before = [pc |-> "start", positions |-> positions, length |-> length,
               direction |-> direction, next_direction |-> next_direction,
               last |-> last, apples |-> apples, poison |-> poison,
               rocks |-> rocks, fps |-> fps, events |-> <<>>]
  /\ ticks = 0

(* ------------------------------ actions ------------------------------- *)
\* clock.tick(fps) returns; fps = handle_keys(snake, fps) with events pending;
\* snake.update_direction()
Input(events) ==
  /\ pc = "tick"
  /\ LET r == handle_keys(events, direction, next_direction, fps)
     IN IF r.exit
          THEN /\ next_direction' = r.next_direction
               /\ pc' = "exit"
               /\ UNCHANGED <<direction, fps>>
          ELSE /\ direction' = update_direction(direction, r.next_direction)
               /\ next_direction' = None
               /\ fps' = r.fps
               /\ pc' = "move"
  /\ before' = Snapshot(events)
  /\ ticks' = ticks + 1
  /\ UNCHANGED <<positions, length, last, apples, poison, rocks, new_position,
                 occupied_positions, move_reset>>

\* Snake.reset, with d the direction choice() draws
Reset(d) ==
  /\ length' = 1
  /\ positions' = <<Center>>
  /\ direction' = d
  /\ last' = None

\* snake.move()
Move ==
  /\ pc = "move"
  /\ IF self_collision(positions, direction)
       THEN /\ \E d \in Directions : Reset(d)
            /\ move_reset' = TRUE
       ELSE /\ positions' = moved(positions, direction, length, last).positions
            /\ last' = moved(positions, direction, length, last).last
            /\ move_reset' = FALSE
            /\ UNCHANGED <<length, direction>>
  /\ pc' = "rocks"
  /\ before' = Snapshot(<<>>)
  /\ UNCHANGED <<next_direction, apples, poison, rocks, fps, new_position,
                 occupied_positions, ticks>>

\* main: occupied_positions of this tick
occupied(ps, as, p, rs) == Range(ps) \cup Range(as) \cup {p} \cup Range(rs)

\* randomize_position taking its first draw, occupied or not
free_anywhere(occ) == RandCells

\* randomize_position(occupied_positions): the cells its loop can end on; with
\* none, it never ends
free(occ) == RandCells \ occ

\* The rock check looking at the first rock only
on_first_rock(ps, rs) == get_head_position(ps) = rs[1]

\* main: snake.get_head_position() in [rock.position for rock in rocks]
on_rock(ps, rs) == get_head_position(ps) \in Range(rs)

\* The rock check drawing the rock that was hit anew
RockStep_relocating ==
  /\ pc = "rocks"
  /\ occupied_positions' = occupied(positions, apples, poison, rocks)
  /\ IF on_rock(positions, rocks)
       THEN /\ \E d \in Directions : Reset(d)
            /\ fps' = INITIAL_FPS
            /\ \E i \in 1..NumRocks, c \in free(occupied_positions') :
                 /\ rocks[i] = get_head_position(positions)
                 /\ rocks' = [rocks EXCEPT ![i] = c]
       ELSE UNCHANGED <<positions, length, direction, last, fps, rocks>>
  /\ pc' = "poison"
  /\ before' = Snapshot(<<>>)
  /\ UNCHANGED <<next_direction, apples, poison, new_position, move_reset, ticks>>

\* main: the occupied set, then the rock check
RockStep ==
  /\ pc = "rocks"
  /\ occupied_positions' = occupied(positions, apples, poison, rocks)
  /\ IF on_rock(positions, rocks)
       THEN /\ \E d \in Directions : Reset(d)
            /\ fps' = INITIAL_FPS
       ELSE UNCHANGED <<positions, length, direction, last, fps>>
  /\ pc' = "poison"
  /\ before' = Snapshot(<<>>)
  /\ UNCHANGED <<next_direction, apples, poison, rocks, new_position, move_reset, ticks>>

\* The shrink without its floor
shrunk_unfloored(len) == len - 1

\* main: snake.length = max(1, snake.length - 1)
shrunk(len) == Max(1, len - 1)

\* main: the poison check
PoisonStep ==
  /\ pc = "poison"
  /\ IF get_head_position(positions) = poison
       THEN /\ length' = shrunk(length)
            /\ poison' \in free(occupied_positions)
       ELSE UNCHANGED <<length, poison>>
  /\ pc' = "apples"
  /\ before' = Snapshot(<<>>)
  /\ UNCHANGED <<positions, direction, next_direction, last, apples, rocks, fps,
                 new_position, occupied_positions, move_reset, ticks>>

\* The apple loop stopping at the first apple it finds under the head
eaten_first(ps, as) ==
  {i \in 1..Len(as) : /\ as[i] = get_head_position(ps)
                       /\ \A j \in 1..(i - 1) : as[j] # get_head_position(ps)}

\* main: the apples the head is on
eaten(ps, as) == {i \in 1..Len(as) : as[i] = get_head_position(ps)}

\* The growth applied whether or not an apple is under the head
grown_always(len, ps, as) == len + 1

\* main: snake.length += 1 for every apple the head is on
grown(len, ps, as) == len + Cardinality(eaten(ps, as))

\* The positions the first n apples can have after the loop "for apple in
\* apples": an apple under the head is drawn anew, off occ; the others stay.
RECURSIVE relocated(_, _, _, _)
relocated(as, ps, occ, n) ==
  IF n = 0 THEN {<<>>}
  ELSE {Append(t, c) : t \in relocated(as, ps, occ, n - 1),
                       c \in IF n \in eaten(ps, as) THEN free(occ) ELSE {as[n]}}

\* main: "for apple in apples"
AppleStep ==
  /\ pc = "apples"
  /\ length' = grown(length, positions, apples)
  /\ apples' \in relocated(apples, positions, occupied_positions, NumApples)
  /\ pc' = "tick"
  /\ before' = Snapshot(<<>>)
  /\ UNCHANGED <<positions, direction, next_direction, last, poison, rocks, fps,
                 new_position, occupied_positions, move_reset, ticks>>

(* --------------------------- specifications --------------------------- *)
\* The game under arrow keys.
Next ==
  \/ \E evs \in ArrowDrains : ticks < MaxTicks /\ Input(evs)
  \/ Move
  \/ RockStep
  \/ PoisonStep
  \/ AppleStep

Spec == Init /\ [][Next]_vars

\* The game under arrow keys, unrecognised keys, the escape key and quit events.
NextKeys ==
  \/ \E evs \in KeyDrains : ticks < KeyTicks /\ Input(evs)
  \/ Move
  \/ RockStep
  \/ PoisonStep
  \/ AppleStep

SpecKeys == Init /\ [][NextKeys]_vars

\* The game under the speed keys.
NextSpeed ==
  \/ \E evs \in SpeedDrains : ticks < SpeedTicks /\ Input(evs)
  \/ Move
  \/ RockStep
  \/ PoisonStep
  \/ AppleStep

\* The speed is explored from the constructions that draw the apples, the
\* poison and the first rock on the centre cell, the second rock on either cell.
InitSpeed ==
  /\ Init
  /\ apples[1] = Center
  /\ poison = Center
  /\ rocks[1] = Center

SpecSpeed == InitSpeed /\ [][NextSpeed]_vars

\* The game under arrow keys, from the constructions that draw the items
\* apart: the first apple on the cell ahead of the snake, the second one or
\* two cells ahead, the third in the corner with the first rock, the poison
\* one or two cells ahead, the second rock in the corner or behind the snake.
Ahead == new_head(<<Center>>, RIGHT)
Ahead2 == new_head(<<Ahead>>, RIGHT)
Behind == new_head(<<Center>>, LEFT)
Corner == <<0, 0>>

InitApart ==
  /\ positions = <<Center>>
  /\ length = 1
  /\ direction = RIGHT
  /\ next_direction = None
  /\ last = None
  /\ apples \in {<<Ahead, a, Corner>> : a \in {Ahead, Ahead2}}
  /\ poison \in {Ahead, Ahead2}
  /\ rocks \in {<<Corner, b>> : b \in {Corner, Behind}}
  /\ fps = INITIAL_FPS
  /\ new_position = None
  /\ occupied_positions = {}
  /\ pc = "tick"
  /\ move_reset = FALSE
  /\ before = [pc |-> "start", positions |-> positions, length |-> length,
               direction |-> direction, next_direction |-> next_direction,
               last |-> last, apples |-> apples, poison |-> poison,
               rocks |-> rocks, fps |-> fps, events |-> <<>>]
  /\ ticks = 0

NextApart ==
  \/ \E evs \in ArrowDrains : ticks < ApartTicks /\ Input(evs)
  \/ Move
  \/ RockStep
  \/ PoisonStep
  \/ AppleStep

SpecApart == InitApart /\ [][NextApart]_vars

(* ------------------------ randomize_position -------------------------- *)
\* The loop of randomize_position(occupied_positions), one draw per step, on
\* the first apple (the three classes have the same method).

\* The test accepting every cell drawn
rejected_never(c, occ) == FALSE

\* randomize_position: "new_position not in occupied_positions" fails
rejected(c, occ) == c \in occ

\* The sets passed as occupied_positions: nothing (the default), and every cell
\* of the screen but some cells of the snake's row (none, up to all of them).
OccupiedSets == {{}} \cup {Cells \ F : F \in SUBSET RandCells}

InitRand ==
  /\ positions = <<Center>>
  /\ length = 1
  /\ direction = RIGHT
  /\ next_direction = None
  /\ last = None
  /\ apples = <<Center, Center, Center>>
  /\ poison = Center
  /\ rocks = <<Center, Center>>
  /\ fps = INITIAL_FPS
  /\ new_position = None
  /\ occupied_positions \in OccupiedSets
  /\ pc = "sample"
  /\ move_reset = FALSE
  /\ before = [pc |-> "start", positions |-> positions, length |-> length,
               direction |-> direction, next_direction |-> next_direction,
               last |-> last, apples |-> apples, poison |-> poison,
               rocks |-> rocks, fps |-> fps, events |-> <<>>]
  /\ ticks = 0

\* One iteration of "while True": randint draws cell c
Draw(c) ==
  /\ pc = "sample"
  /\ new_position' = c
  /\ IF rejected(c, occupied_positions)
       THEN UNCHANGED <<apples, pc>>
       ELSE /\ apples' = [apples EXCEPT ![1] = c]
            /\ pc' = "placed"
  /\ UNCHANGED <<positions, length, direction, next_direction, last, poison, rocks,
                 fps, occupied_positions, move_reset, before, ticks>>

NextRand == \E c \in Cells : Draw(c)

\* Fair sampling: a cell that randint can draw is drawn sooner or later.
SpecRand == InitRand /\ [][NextRand]_vars /\ \A c \in Cells : WF_vars(Draw(c))

(* ------------------------------ claims -------------------------------- *)
\* In the formulas below, `before` is the state the last step started from:
\* at pc = "move" the state when the input drain began (with the events
\* drained), at pc = "rocks" the state before move(), at pc = "poison" the
\* state before the rock check, at pc = "apples" the state before the poison
\* check, at pc = "tick" the state before the apple loop.

Opposite(d) == <<0 - d[1], 0 - d[2]>>

DirOfKey(k) ==
  CASE k = "K_UP" -> UP
    [] k = "K_DOWN" -> DOWN
    [] k = "K_LEFT" -> LEFT
    [] k = "K_RIGHT" -> RIGHT

IsArrow(e) == e.type = "KEYDOWN" /\ e.key \in ArrowKeys

\* C1: for a body of at least 3 cells, if the new head computed by move() is
\* one of positions[2:], then right after move() length is 1 and the body is
\* [center]: the snake was reset and the new head was not inserted.
C1_SelfCollisionResets ==
  (/\ pc = "rocks"
   /\ Len(before.positions) >= 3
   /\ \E i \in 3..Len(before.positions) :
        before.positions[i] = new_head(before.positions, before.direction))
  => (length = 1 /\ positions = <<Center>> /\ move_reset)

C1_Witness ==
  /\ pc = "rocks"
  /\ Len(before.positions) >= 3
  /\ \E i \in 3..Len(before.positions) :
       before.positions[i] = new_head(before.positions, before.direction)
  /\ before.length > 1
  /\ length = 1
  /\ positions = <<Center>>

\* C2, as stated: on a tick in which move() reset the snake, none of the rock,
\* poison and apple checks changes anything: through the end of the tick
\* length is 1, the speed is what it was, and no apple or poison has moved.
C2_TickEndsAtReset ==
  (move_reset /\ pc \in {"poison", "apples", "tick"})
  => (/\ length = 1
      /\ fps = before.fps
      /\ apples = before.apples
      /\ poison = before.poison)

NothingAtCenter(as, p, rs) == Center \notin (Range(as) \cup {p} \cup Range(rs))

\* C2, amended: on a tick in which move() reset the snake, the rock, poison
\* and apple checks still run, on the reset snake; when no rock, poison or
\* apple is on the center cell, they change nothing: through the end of the
\* tick length is 1, the speed is what it was, and no apple or poison has moved.
C2_ChecksRunAfterReset ==
  (/\ move_reset
   /\ pc \in {"poison", "apples", "tick"}
   /\ NothingAtCenter(before.apples, before.poison, rocks))
  => (/\ length = 1
      /\ positions = <<Center>>
      /\ fps = before.fps
      /\ apples = before.apples
      /\ poison = before.poison)

C2_Witness ==
  /\ move_reset
  /\ pc = "tick"
  /\ before.pc = "apples"
  /\ NothingAtCenter(before.apples, before.poison, rocks)
  /\ length = 1
  /\ apples = before.apples

\* C3: the direction held after update_direction() is never the opposite of
\* the direction held when the tick's input drain began, whatever was
\* drained; a drain of the one opposite arrow key leaves the direction as it was.
C3_NoReversal ==
  pc = "move"
  => (/\ direction # Opposite(before.direction)
      /\ (/\ Len(before.events) = 1
          /\ IsArrow(before.events[1])
          /\ DirOfKey(before.events[1].key) = Opposite(before.direction))
         => direction = before.direction)

C3_Witness ==
  /\ pc = "move"
  /\ \E i \in 1..Len(before.events) :
       /\ IsArrow(before.events[i])
       /\ DirOfKey(before.events[i].key) = Opposite(before.direction)
  /\ direction = before.direction
  /\ before.direction # RIGHT

\* The drained events that are arrow keys not opposite to direction d
Accepted(evs, d) ==
  {i \in 1..Len(evs) : IsArrow(evs[i]) /\ DirOfKey(evs[i].key) # Opposite(d)}

Last(S) == CHOOSE i \in S : \A j \in S : j <= i

\* C4: the direction applied by update_direction() after a drain is that of
\* the last drained arrow key that is not opposite to the direction held when
\* the drain began (opposite keys and other keys neither overwrite nor clear
\* it); with no such key the direction is unchanged; and nothing stays buffered.
C4_LastAcceptedKeyWins ==
  pc = "move"
  => (/\ direction =
           IF Accepted(before.events, before.direction) = {}
             THEN before.direction
             ELSE DirOfKey(before.events[Last(Accepted(before.events,
                                                       before.direction))].key)
      /\ next_direction = None)

C4_Witness ==
  /\ pc = "move"
  /\ Len(before.events) = 2
  /\ IsArrow(before.events[1])
  /\ DirOfKey(before.events[1].key) \notin {before.direction, Opposite(before.direction)}
  /\ IsArrow(before.events[2])
  /\ DirOfKey(before.events[2].key) = Opposite(before.direction)
  /\ direction = DirOfKey(before.events[1].key)

\* The apples under the head when the apple loop began
Hit == {i \in 1..NumApples : before.apples[i] = get_head_position(positions)}

\* C5: after the apple loop, length has grown by exactly 1 for every apple
\* that was under the head, and each such apple is on a cell that is not in
\* the occupied set of this tick (so not its old cell); the other apples
\* have not moved.
C5_AppleGrowsAndRelocates ==
  (pc = "tick" /\ before.pc = "apples")
  => (/\ length = before.length + Cardinality(Hit)
      /\ \A i \in Hit :
           /\ apples[i] \notin occupied_positions
           /\ apples[i] # before.apples[i]
      /\ \A i \in (1..NumApples) \ Hit : apples[i] = before.apples[i])

C5_Witness ==
  /\ pc = "tick"
  /\ before.pc = "apples"
  /\ Cardinality(Hit) = 1
  /\ length = before.length + 1
  /\ \E i \in Hit : \E j \in (1..NumApples) \ Hit : apples[j] \in occupied_positions

\* C6: when the head is on a rock's cell after move(), the rock check resets
\* the snake (length 1, body [center], last None) and sets the speed to
\* INITIAL_FPS, whatever it was.
C6_RockResets ==
  (pc = "poison" /\ get_head_position(before.positions) \in Range(rocks))
  => (/\ length = 1
      /\ positions = <<Center>>
      /\ last = None
      /\ fps = INITIAL_FPS)

C6_Witness ==
  /\ pc = "poison"
  /\ get_head_position(before.positions) = rocks[2]
  /\ get_head_position(before.positions) # rocks[1]
  /\ before.fps # INITIAL_FPS
  /\ fps = INITIAL_FPS
  /\ positions = <<Center>>

\* C7: length is at least 1 in every state, and the poison check leaves
\* length - 1 when length was above 1 and 1 when it was 1.
C7_LengthAtLeastOne ==
  /\ length >= 1
  /\ (pc = "apples" /\ get_head_position(before.positions) = before.poison)
     => (/\ before.length = 1 => length = 1
         /\ before.length > 1 => length = before.length - 1)

C7_Witness ==
  /\ pc = "apples"
  /\ get_head_position(before.positions) = before.poison
  /\ before.length = 1
  /\ length = 1
  /\ poison # before.poison

Min(a, b) == IF a <= b THEN a ELSE b

\* The speed after one key, as a step clamped to 5..20
Clamped(key, f) ==
  IF key = "K_q" THEN Max(5, f - 1)
  ELSE IF key = "K_w" THEN Min(20, f + 1)
  ELSE f

RECURSIVE ClampedAll(_, _)
ClampedAll(evs, f) ==
  IF evs = <<>> THEN f ELSE ClampedAll(Tail(evs), Clamped(Head(evs).key, f))

\* C8: the speed is always within 5..20, and after a drain it is the speed
\* before with every decrease key applied as -1 floored at 5 and every
\* increase key as +1 capped at 20, in the order drained.
C8_SpeedClamped ==
  /\ fps >= 5
  /\ fps <= 20
  /\ pc = "move" => fps = ClampedAll(before.events, before.fps)

C8_Witness ==
  /\ pc = "move"
  /\ before.fps = 18
  /\ before.events = <<KeyDown("K_w"), KeyDown("K_w"), KeyDown("K_w")>>
  /\ fps = 20

\* A cell of the screen: both coordinates multiples of the cell size, within
\* [0, SCREEN_WIDTH) x [0, SCREEN_HEIGHT)
OnGrid(c) ==
  /\ c[1] % GRID_SIZE = 0
  /\ c[2] % GRID_SIZE = 0
  /\ 0 <= c[1] /\ c[1] < SCREEN_WIDTH
  /\ 0 <= c[2] /\ c[2] < SCREEN_HEIGHT

\* C9: every cell of the snake's body and every apple, poison and rock is a
\* cell of the screen, in every state: wrap-around never leaves the screen.
C9_OnGrid ==
  /\ \A i \in 1..Len(positions) : OnGrid(positions[i])
  /\ \A i \in 1..NumApples : OnGrid(apples[i])
  /\ OnGrid(poison)
  /\ \A i \in 1..NumRocks : OnGrid(rocks[i])

C9_Witness ==
  /\ pc = "rocks"
  /\ ~move_reset
  /\ before.direction = UP
  /\ get_head_position(before.positions)[2] = 0
  /\ get_head_position(positions)[2] = SCREEN_HEIGHT - GRID_SIZE

\* C10: after a move() that does not reset, if the body with the new head
\* held more than length cells, last is the tail cell that left the body.
C10_TailRecorded ==
  (/\ pc = "rocks"
   /\ ~move_reset
   /\ Len(before.positions) + 1 > before.length)
  => last = before.positions[Len(before.positions)]

\* C11: right after every move(), resetting or not, the body holds at least
\* one cell and at most length cells, also when the body was longer than
\* length before the move (a poison shrink in the tick before).
C11_BodyWithinLength ==
  pc = "rocks" => (1 <= Len(positions) /\ Len(positions) <= length)

C11_Witness ==
  /\ pc = "rocks"
  /\ ~move_reset
  /\ Len(before.positions) > before.length
  /\ Len(positions) = length

\* An event that ends the game: a quit event or the escape key
IsExit(e) == e.type = "QUIT" \/ (e.type = "KEYDOWN" /\ e.key = "K_ESCAPE")

\* The drained events before the first one that ends the game
BeforeExit(evs) ==
  SubSeq(evs, 1, (CHOOSE i \in 1..Len(evs) :
                    IsExit(evs[i]) /\ \A j \in 1..(i - 1) : ~IsExit(evs[j])) - 1)

\* What the game holds once it has ended: the snake, the items and the speed
\* as they were when the drain began, but for the direction buffered by the
\* arrow keys drained before the event that ended it
EndedInDrain ==
  /\ \E i \in 1..Len(before.events) : IsExit(before.events[i])
  /\ positions = before.positions
  /\ length = before.length
  /\ direction = before.direction
  /\ last = before.last
  /\ apples = before.apples
  /\ poison = before.poison
  /\ rocks = before.rocks
  /\ fps = before.fps
  /\ next_direction =
       IF Accepted(BeforeExit(before.events), before.direction) = {}
         THEN before.next_direction
         ELSE DirOfKey(before.events[Last(Accepted(BeforeExit(before.events),
                                                   before.direction))].key)

\* C12: a drain that holds a quit event or the escape key ends the game
\* there: the events after it are not processed, update_direction() and
\* move() are not called, no collision step runs, and from then on the
\* snake, the items and the speed never change.
C12_ExitStopsTheGame ==
  /\ [](pc = "move" => \A i \in 1..Len(before.events) : ~IsExit(before.events[i]))
  /\ [](pc = "exit" => EndedInDrain)
  /\ [][pc = "exit" => UNCHANGED <<pc, positions, length, direction, next_direction,
                                   last, apples, poison, rocks, fps>>]_vars

C12_Witness ==
  /\ pc = "exit"
  /\ Len(before.events) = 2
  /\ IsExit(before.events[1])
  /\ IsArrow(before.events[2])
  /\ DirOfKey(before.events[2].key) \notin {before.direction, Opposite(before.direction)}
  /\ next_direction = None
  /\ direction # RIGHT

\* C13: the rocks are where the construction put them: no step of a tick
\* (the move, a reset, the rock check, the poison check, the apple loop)
\* changes the position of a rock.
C13_RocksStatic == rocks = before.rocks

C13_Witness ==
  /\ ticks = 1
  /\ pc = "apples"
  /\ positions = <<Center>>
  /\ Center \notin Range(rocks)
  /\ before.poison = Center
  /\ poison # Center
  /\ rocks = before.rocks

\* C14: the snake starts with length 1, body [center] and direction RIGHT
\* (the center being (320, 240) on the 640 x 480 screen); from there, one
\* update_direction() and move() with no input leave a body of exactly one
\* cell, the center plus one cell to the right ((340, 240) on the 640 x 480
\* screen), and length 1.
C14_FirstAdvance ==
  /\ <<640 \div 2, 480 \div 2>> = <<320, 240>>
  /\ <<(320 + 1 * GRID_SIZE) % 640, (240 + 0 * GRID_SIZE) % 480>> = <<340, 240>>
  /\ ticks = 0
     => (/\ length = 1
         /\ positions = <<Center>>
         /\ Center = <<SCREEN_WIDTH \div 2, SCREEN_HEIGHT \div 2>>
         /\ direction = RIGHT)
  /\ (ticks = 1 /\ pc = "move" /\ before.events = <<>>)
     => (direction = RIGHT /\ positions = <<Center>> /\ length = 1)
  /\ (ticks = 1 /\ pc = "rocks" /\ before.direction = RIGHT)
     => (/\ positions = << <<Center[1] + GRID_SIZE, Center[2]>> >>
         /\ length = 1)

C14_Witness ==
  /\ ticks = 1
  /\ pc = "rocks"
  /\ before.direction = RIGHT
  /\ before.positions = <<Center>>
  /\ positions = << <<Center[1] + GRID_SIZE, Center[2]>> >>
  /\ length = 1

\* A key the program does not recognise
Unrecognised(e) ==
  e.type = "KEYDOWN" /\ e.key \notin (ArrowKeys \cup SpeedKeys \cup {"K_ESCAPE"})

\* C15: a key that is not an arrow, a speed key or escape is ignored: a
\* drain of such keys does not end the game and leaves the direction, the
\* buffered next_direction, the length, the body, the speed and every item
\* where they were; read after an arrow key, it leaves that key's direction
\* buffered.
C15_UnrecognisedIgnored ==
  /\ (/\ pc \in {"move", "exit"}
      /\ before.events # <<>>
      /\ \A i \in 1..Len(before.events) : Unrecognised(before.events[i]))
     => (/\ pc = "move"
         /\ direction = before.direction
         /\ next_direction = before.next_direction
         /\ length = before.length
         /\ positions = before.positions
         /\ fps = before.fps
         /\ apples = before.apples
         /\ poison = before.poison
         /\ rocks = before.rocks)
  /\ (/\ pc \in {"move", "exit"}
      /\ Len(before.events) = 2
      /\ IsArrow(before.events[1])
      /\ DirOfKey(before.events[1].key) # Opposite(before.direction)
      /\ Unrecognised(before.events[2]))
     => (pc = "move" /\ direction = DirOfKey(before.events[1].key))

C15_Witness ==
  /\ pc = "move"
  /\ Len(before.events) = 2
  /\ Unrecognised(before.events[1])
  /\ Unrecognised(before.events[2])
  /\ before.direction # RIGHT
  /\ direction = before.direction
  /\ fps = before.fps

\* The cells held by the snake, the poison, the rocks and the apples other
\* than apple i
HeldBesidesApple(i) ==
  Range(positions) \cup {poison} \cup Range(rocks)
    \cup {apples[j] : j \in (1..NumApples) \ {i}}

\* C16: an item relocated in a tick is, at the end of that tick, on a cell
\* held by nothing else: the poison, right after its relocation, is on no
\* cell of the snake, no apple and no rock (an apple relocated later in the
\* tick is covered below), and every apple relocated by the apple loop is on
\* no cell of the snake, not on the poison, on no rock and on no other apple.
C16_RelocationOffEntities ==
  /\ (pc = "apples" /\ get_head_position(before.positions) = before.poison)
     => poison \notin (Range(positions) \cup Range(apples) \cup Range(rocks))
  /\ (pc = "tick" /\ before.pc = "apples")
     => \A i \in Hit : apples[i] \notin HeldBesidesApple(i)

\* C17: randomize_position(occupied) rejects a cell of occupied and draws
\* again; it ends only on a cell outside occupied; under fair sampling it
\* does end when some cell of the screen is outside occupied, and it never
\* ends when occupied holds every cell of the screen.
C17_RejectionSampling ==
  /\ [][(pc = "sample" /\ new_position' \in occupied_positions)
          => (pc' = "sample" /\ apples' = apples)]_vars
  /\ [](pc = "placed"
          => (apples[1] = new_position /\ new_position \notin occupied_positions))
  /\ []((Cells \subseteq occupied_positions) => pc = "sample")
  /\ ((pc = "sample" /\ ~(Cells \subseteq occupied_positions)) ~> (pc = "placed"))

C17_Witness ==
  /\ pc = "placed"
  /\ Cardinality(Cells \ occupied_positions) = 1
  /\ apples[1] \in Cells \ occupied_positions
  /\ apples[1] # before.apples[1]

\* Two cells one cell apart along exactly one axis of the wrap-around screen
WrapAdjacent(a, b) ==
  \/ /\ a[2] = b[2]
     /\ (a[1] - b[1]) % SCREEN_WIDTH \in {GRID_SIZE, SCREEN_WIDTH - GRID_SIZE}
  \/ /\ a[1] = b[1]
     /\ (a[2] - b[2]) % SCREEN_HEIGHT \in {GRID_SIZE, SCREEN_HEIGHT - GRID_SIZE}

\* C18: in every state the cells of the body are pairwise distinct, and each
\* cell of the body is adjacent, on the wrap-around screen, to the one before
\* it, whatever keys, growth, shrinks and resets came before (the screen
\* being at least 3 cells wide and high).
C18_BodySimplePath ==
  /\ GRID_WIDTH >= 3
  /\ GRID_HEIGHT >= 3
  /\ \A i, j \in 1..Len(positions) : i # j => positions[i] # positions[j]
  /\ \A i \in 1..(Len(positions) - 1) : WrapAdjacent(positions[i], positions[i + 1])

C18_Witness ==
  /\ pc = "rocks"
  /\ ~move_reset
  /\ Len(positions) >= 4
  /\ positions[1][1] # positions[3][1]
  /\ positions[1][2] # positions[3][2]
  /\ WrapAdjacent(positions[1], positions[4])

\* C19: at the end of every tick, after the rock, poison and apple steps,
\* neither the poison nor an apple is on the cell of the head: an item found
\* under the head has been consumed and drawn away in that tick, also when a
\* reset moved the head to the center in that tick.
C19_HeadCellClear ==
  (pc = "tick" /\ before.pc = "apples")
  => (/\ poison # get_head_position(positions)
      /\ \A i \in 1..NumApples : apples[i] # get_head_position(positions))

C19_Witness ==
  /\ ticks = 1
  /\ pc = "tick"
  /\ before.pc = "apples"
  /\ positions = <<Center>>
  /\ Cardinality(Hit) = NumApples
  /\ Center \notin Range(apples) \cup {poison}

====
